---- MODULE Spec2Model ----
(***************************************************************************)
(* Salience: the workflow loop (src/salience.py), the task queue           *)
(* (src/Utilities/TaskHandling.py), the status evaluator                   *)
(* (src/CustomAgents/StatusAgent.py) and the planner                       *)
(* (src/CustomAgents/TaskCreationAgent.py), as one state machine.          *)
(*                                                                         *)
(* The document store, the text generation behind every agent, the action  *)
(* selection/execution modules and the console are collaborators: each     *)
(* call returns a value drawn from a small set, or raises.                 *)
(***************************************************************************)
EXTENDS Integers, Sequences, FiniteSets, TLC

(* ------------------------------ bounds --------------------------------- *)

\* Longest task list a persona configuration or a planning answer holds.
MaxTasks == 2

\* Most transcripts ./Results/task_results.txt holds: a status evaluation
\* that would append one more is not followed.
MaxLog == 2

\* Most collaborator calls (store, file, action selection, action, execution
\* agent) that raise in one run of the program.
MaxFaults == 1

(* ----------------------------- values ---------------------------------- *)

\* Python values that are not always strings are held as records, so that
\* any two of them can be compared: None, the empty dict {}, a dict key that
\* was never set, and a str.
None == [py |-> "None"]
EmptyDict == [py |-> "dict"]
Absent == [py |-> "absent"]
Str(s) == [py |-> "str", v |-> s]

\* Task descriptions as the persona configuration writes them, and
\* str.strip() on them (metadata_builder strips, save_tasks does not).
ConfigTasks == <<"A", " B ", "C", " D ">>
strip(s) ==
    CASE s = " B " -> "B"
      [] s = " D " -> "D"
      [] s = " completed " -> "completed"
      [] s = " Completed " -> "Completed"
      [] OTHER -> s

\* str.lower() left out.
lower_skipped(s) == s

\* str.lower() on the status texts of the model.
lower(s) ==
    CASE s = " Completed " -> " completed "
      [] OTHER -> s

\* The task descriptions of a planning answer: it lists the first n.
PlanTasks == <<"X", "Y", "X", "Y">>

\* Status texts a status report may carry under its `status` key.
StatusTexts == {"completed", " Completed ", "not completed"}

\* Reason texts a status report may carry under its `reason` key.
ReasonTexts == {"too vague"}

\* What the user may type at the feedback prompt.
FeedbackTexts == {""}

\* str(n) for the task orders of the model.
str(n) == <<"1", "2", "3", "4", "5", "6", "7", "8", "9">>[n]

\* uuid.uuid4(): the i-th value of the batch one call draws; two batches
\* never share a value.
UuidSeeds == {1, 2}
uuid4(seed, i) == <<"uuid", seed, i>>

(* ------------------- IEEE-754 doubles of the controller ---------------- *)

\* A double in [0, 2) is held exactly as <<hi, lo>>, the integer
\* hi * 2^28 + lo counting units of 2^-56 (0.1 has the smallest ulp of
\* the values involved, 2^-56).
Limb == 2^28

\* float literals of Salience.__init__, as the doubles Python reads them.
frustration_step == <<26843545, 161061274>>
min_frustration == <<187904819, 53687088>>
max_frustration == <<268435456, 0>>

\* The doubles nearest 0.8 and 0.9 (what 0.7 + 0.1 * k would be in reals).
Double_0_8 == <<214748364, 214748368>>
Double_0_9 == <<241591910, 107374184>>

FLess(x, y) == x[1] < y[1] \/ (x[1] = y[1] /\ x[2] < y[2])
FLeq(x, y) == x = y \/ FLess(x, y)

\* Exact sum of two such values (no rounding yet).
FExactSum(x, y) ==
    LET lo == x[2] + y[2]
    IN  IF lo >= Limb THEN <<x[1] + y[1] + 1, lo - Limb>> ELSE <<x[1] + y[1], lo>>

\* Round to nearest, ties to even, at the ulp of the result's binade:
\* 2^-53 (8 units) in [0.5, 1), 2^-52 (16 units) in [1, 2).
FRound(x) ==
    LET ulp == IF x[1] >= Limb THEN 16 ELSE 8
        rem == x[2] % ulp
        down == x[2] - rem
        odd == (down \div ulp) % 2 = 1
        up == rem * 2 > ulp \/ (rem * 2 = ulp /\ odd)
        lo == IF up THEN down + ulp ELSE down
    IN  IF lo >= Limb THEN <<x[1] + 1, lo - Limb>> ELSE <<x[1], lo>>

\* Python's float +.
FAdd(x, y) == FRound(FExactSum(x, y))

\* Python's min(a, b): b only when b < a.
FMin(a, b) == IF FLess(b, a) THEN b ELSE a

(* --------------------------- document store ---------------------------- *)

\* One document of the Tasks collection.
Doc(id, document, metadata) == [id |-> id, document |-> document, metadata |-> metadata]

Ids(store) == {store[i].id : i \in 1..Len(store)}

\* save_memory for one document as an add: a stored id is not looked for.
Upsert_as_add(store, d) == Append(store, d)

\* save_memory for one document: upsert by id, the stored metadata replaced whole.
Upsert(store, d) ==
    IF d.id \in Ids(store)
    THEN [i \in 1..Len(store) |-> IF store[i].id = d.id THEN d ELSE store[i]]
    ELSE Append(store, d)

\* save_memory(params): upsert every document of the call, in order.
RECURSIVE save_memory(_, _)
save_memory(store, docs) ==
    IF docs = <<>> THEN store
    ELSE save_memory(Upsert(store, Head(docs)), Tail(docs))

\* delete_collection(name) doing nothing.
delete_collection_skipped(store) == store

\* delete_collection(name).
delete_collection(store) == <<>>

(* ------------------ TaskHandling: the ordered queue -------------------- *)

\* sorted(paired_up_tasks, key=Order): Python's sort is stable, so a task
\* goes after every task whose Order is not greater.
RECURSIVE InsertByOrder(_, _)
InsertByOrder(sorted, d) ==
    IF sorted = <<>> THEN <<d>>
    ELSE IF Head(sorted).metadata.Order <= d.metadata.Order
         THEN <<Head(sorted)>> \o InsertByOrder(Tail(sorted), d)
         ELSE <<d>> \o sorted

RECURSIVE sorted_by_order(_)
sorted_by_order(s) ==
    IF s = <<>> THEN <<>>
    ELSE InsertByOrder(sorted_by_order(SubSeq(s, 1, Len(s) - 1)), s[Len(s)])

EmptyOrderedList == [ids |-> <<>>, embeddings |-> <<>>, documents |-> <<>>, metadatas |-> <<>>]

\* get_ordered_task_list: `read_ok` is whether load_collection answered.
\* An empty collection makes zip(*sorted_tasks) unpack nothing, which raises
\* too: both cases end in the except branch.
get_ordered_task_list(store, read_ok) ==
    IF ~read_ok \/ store = <<>> THEN EmptyOrderedList
    ELSE LET sorted_tasks == sorted_by_order(store)
         IN  [ids |-> [i \in 1..Len(sorted_tasks) |-> sorted_tasks[i].id],
              embeddings |-> None,
              documents |-> [i \in 1..Len(sorted_tasks) |-> sorted_tasks[i].document],
              metadatas |-> [i \in 1..Len(sorted_tasks) |-> sorted_tasks[i].metadata]]

\* The for loop of get_current_task, from position i on.
RECURSIVE first_not_completed(_, _)
first_not_completed(ordered_list, i) ==
    IF i > Len(ordered_list.metadatas) THEN None
    ELSE IF ordered_list.metadatas[i].Status = "not completed"
         THEN [id |-> ordered_list.ids[i],
               document |-> ordered_list.documents[i],
               metadata |-> ordered_list.metadatas[i]]
         ELSE first_not_completed(ordered_list, i + 1)

get_current_task(store, read_ok) ==
    first_not_completed(get_ordered_task_list(store, read_ok), 1)

(* ---------------------- Salience: prefill_storage ---------------------- *)

\* metadata_builder(order, details), order counted from 0 by enumerate.
metadata_builder(order, details, list_id) ==
    [Status |-> "not completed",
     Description |-> strip(details),
     List_ID |-> list_id,
     Order |-> order + 1]

\* prefill_storage("Tasks", data): ids from id_generator, one upsert call.
prefill_storage(store, data, seed) ==
    LET metadata == [i \in 1..Len(data) |-> metadata_builder(i - 1, data[i], uuid4(seed, i))]
    IN  save_memory(store,
            [i \in 1..Len(data) |-> Doc(str(i), metadata[i].Description, metadata[i])])

(* -------------------------- TaskCreationAgent -------------------------- *)

\* What parse_yaml_string may return for a planning answer: None, a dict
\* without `tasks`, or a dict whose `tasks` is a list of descriptions.
PlanAnswers ==
    {None, [objective |-> "x"]}
    \cup {[tasks |-> SubSeq(PlanTasks, 1, n)] : n \in 0..MaxTasks}

\* TaskCreationAgent.parse_result: self.result afterwards.
TaskCreationAgent_parse_result(parsed_yaml) ==
    IF parsed_yaml = None \/ "tasks" \notin DOMAIN parsed_yaml THEN <<>>
    ELSE [index \in 1..Len(parsed_yaml.tasks) |->
             [Order |-> index, Description |-> parsed_yaml.tasks[index]]]

\* What the store may do during save_tasks: answer both calls, raise in
\* delete_collection, or raise in save_memory.
StoreFaults == {"none", "delete", "insert"}

\* save_tasks without its first store call (a merge into the old queue).
save_tasks_merge(store, task_list, seed, fault) ==
    IF fault # "none" THEN store
    ELSE save_memory(store,
            [i \in 1..Len(task_list) |->
                Doc(str(task_list[i].Order), task_list[i].Description,
                    [Status |-> "not completed", Order |-> task_list[i].Order,
                     Description |-> task_list[i].Description,
                     List_ID |-> uuid4(seed, i)])])

\* TaskCreationAgent.save_tasks: the Tasks collection afterwards.
save_tasks(store, task_list, seed, fault) ==
    IF fault = "delete" THEN store
    ELSE IF fault = "insert" THEN delete_collection(store)
    ELSE save_memory(delete_collection(store),
            [i \in 1..Len(task_list) |->
                Doc(str(task_list[i].Order), task_list[i].Description,
                    [Status |-> "not completed", Order |-> task_list[i].Order,
                     Description |-> task_list[i].Description,
                     List_ID |-> uuid4(seed, i)])])

(* ----------------------------- StatusAgent ----------------------------- *)

\* dict.get(key, default).
get(d, key, default) == IF key \in DOMAIN d THEN d[key] ELSE default

\* What parse_yaml_string may return for a status report: None, a dict
\* without the `status` key, or a dict with both keys.
StatusReports ==
    {None}
    \cup {[reason |-> r] : r \in ReasonTexts}
    \cup {[status |-> s, reason |-> r] : s \in StatusTexts, r \in ReasonTexts}

\* StatusAgent.parse_result, lines 38-61: self.result afterwards. `data` is
\* the agent's kwargs (current_task, task_result, ...).
StatusAgent_parse_result(parsed_yaml, data) ==
    IF parsed_yaml = None \/ data.current_task = None THEN EmptyDict
    ELSE LET status == strip(lower(get(parsed_yaml, "status", "")))
             reason == strip(get(parsed_yaml, "reason", ""))
             task == [task_id |-> data.current_task.id,
                      description |-> data.current_task.metadata.Description,
                      status |-> status,
                      order |-> data.current_task.metadata.Order]
         IN  [task |-> task, status |-> status, reason |-> reason]

\* The entries parse_result appends to task_results.txt: one transcript
\* when the parsed status is "completed" (log_task_results).
log_task_results(result, data) ==
    IF result # EmptyDict /\ result.status = "completed"
    THEN <<[kind |-> "transcript", task |-> result.task.description, text |-> data.task_result]>>
    ELSE <<>>

\* save_status writing the status onto every stored task.
save_status_all(store, result, write_ok) ==
    IF result = EmptyDict \/ ~write_ok THEN store
    ELSE [i \in 1..Len(store) |->
             [store[i] EXCEPT !.metadata = [Status |-> result.status,
                                            Description |-> store[i].metadata.Description,
                                            Order |-> store[i].metadata.Order]]]

\* StatusAgent.save_status: the Tasks collection afterwards. An empty
\* result has no "status" key (KeyError, caught); `write_ok` is whether
\* save_memory answered.
save_status(store, result, write_ok) ==
    IF result = EmptyDict \/ ~write_ok THEN store
    ELSE save_memory(store,
            <<Doc(result.task.task_id, result.task.description,
                  [Status |-> result.status,
                   Description |-> result.task.description,
                   Order |-> result.task.order])>>)

(* ------------------------ Salience: pure parts ------------------------- *)

\* The `in` test of get_feedback_from_status_results on the status texts
\* of the model: which of them contain "not completed".
contains_not_completed(status) == status = "not completed"

\* get_feedback_from_status_results without its `in` test: the reason of
\* every status result.
get_feedback_unconditional(status) ==
    IF status = None THEN None ELSE Str(status.reason)

\* get_feedback_from_status_results(status) for a status dict that has its
\* keys, or for None (self.task.get gives None while no result was stored).
get_feedback_from_status_results(status) ==
    IF status = None THEN None
    ELSE IF contains_not_completed(status.status) THEN Str(status.reason)
    ELSE None

\* frustrate() without the min() of line 270.
frustrate_unclamped(f, selection) ==
    IF FLess(f, max_frustration)
    THEN LET raised == FAdd(f, frustration_step)
         IN  [frustration |-> raised,
              action_selection |-> [selection EXCEPT !.threshold = raised]]
    ELSE [frustration |-> f, action_selection |-> selection]

\* frustrate() without its set_threshold call.
frustrate_silent(f, selection) ==
    IF FLess(f, max_frustration)
    THEN [frustration |-> FMin(FAdd(f, frustration_step), max_frustration),
          action_selection |-> selection]
    ELSE [frustration |-> f, action_selection |-> selection]

\* frustrate(): the new frustration and the action selector afterwards.
frustrate(f, selection) ==
    IF FLess(f, max_frustration)
    THEN LET raised == FMin(FAdd(f, frustration_step), max_frustration)
         IN  [frustration |-> raised,
              action_selection |-> [selection EXCEPT !.threshold = raised]]
    ELSE [frustration |-> f, action_selection |-> selection]

\* The order of the calls in the body of loop(), lines 109-114, with the
\* status evaluation left out of it.
loop_body_skipping == <<"display_task_list", "fetch_context", "fetch_feedback",
                        "load_data_from_storage", "handle_frustration">>

\* The order of the calls in the body of loop(), lines 109-114; run() is
\* entered at its first step that changes state, load_data_from_storage.
loop_body == <<"display_task_list", "fetch_context", "fetch_feedback",
               "load_data_from_storage", "determine_status", "handle_frustration">>

\* The call of the loop body that follows call number i (the while True
\* goes back to the first).
after_call(i) == loop_body[(i % Len(loop_body)) + 1]

\* The call that follows `name` in the loop body.
loop_after(name) ==
    after_call(CHOOSE i \in 1..Len(loop_body) : loop_body[i] = name)

\* The except branch of run(): whatever step raised an Exception, run
\* returns and the loop goes on with the call after it.
after_run == loop_after("load_data_from_storage")

\* check_for_actions as an earlier revision had it: one path or the other.
check_for_actions_exclusive(selected) ==
    IF selected # None THEN <<"execute_action">> ELSE <<"execute_task">>

\* check_for_actions, lines 139-143: the paths it runs, in order.
check_for_actions(selected) ==
    IF selected # None THEN <<"execute_action", "execute_task">> ELSE <<>>

\* The step after path number i of check_for_actions: the next path, or
\* log_results when check_for_actions returns.
dispatch_after(selected, i) ==
    LET paths == check_for_actions(selected)
    IN  IF i < Len(paths) THEN paths[i + 1] ELSE "log_results"

\* determine_current_task with quit() raising an ordinary Exception: the
\* handler of load_data_from_storage would log it and run() would go on.
determine_current_task_caught(current_task) == "summarize_task"

\* determine_current_task, lines 150-152: quit() raises SystemExit, which
\* is no Exception: none of the handlers of load_data_from_storage, run and
\* loop catches it and the process ends.
determine_current_task(current_task) ==
    IF current_task = None THEN "quit" ELSE "summarize_task"

(* ------------------------------- state --------------------------------- *)

VARIABLES
    pc,               \* the step the process is at
    Tasks,            \* the Tasks collection of the store
    results_file,     \* the transcripts of ./Results/task_results.txt, in file order
                      \* (the task lists show_task_list appends between them are
                      \* projected away)
    frustration,      \* self.frustration
    action_selection, \* threshold and result count of the action selector
    data,             \* self.data: current_task, Order
    task,             \* self.task: execution_results, status_result
    context,          \* self.context
    feedback,         \* self.feedback
    reason,           \* self.reason
    selected_action,  \* self.selected_action
    last_save_tasks,  \* history: the last save_tasks call that answered
    faults,           \* history: collaborator calls that raised so far
    calls,            \* history: the paths and collaborators check_for_actions ran
    fresh             \* history: execution_results was written by this run()

vars == <<pc, Tasks, results_file, frustration, action_selection, data, task,
          context, feedback, reason, selected_action,
          last_save_tasks, faults, calls, fresh>>

LoopSteps == {"display_task_list", "fetch_context", "fetch_feedback",
              "load_data_from_storage", "summarize_task", "select_action",
              "execute_action", "execute_task", "log_results",
              "determine_status", "handle_frustration"}

Terminal == {"quit", "interrupted", "loop_error"}

\* set_objective(): an empty input keeps the configured tasks; any other
\* input runs the task creation agent on the planning answer (parse_result,
\* then save_result; build_output does nothing).
set_objective(store, user_input, parsed_yaml, seed, fault) ==
    IF user_input = "" THEN store
    ELSE save_tasks(store, TaskCreationAgent_parse_result(parsed_yaml), seed, fault)

\* The Tasks collection as init_storage leaves an empty store: prefilled
\* with the persona's tasks (the first batch of uuids the process draws).
PrefilledStores ==
    {prefill_storage(<<>>, SubSeq(ConfigTasks, 1, n), 1) : n \in 0..MaxTasks}

\* The Tasks collection as Salience.__init__ can leave it: init_storage,
\* then set_objective (the second batch of uuids).
ConstructorStores ==
    {set_objective(store, user_input, parsed_yaml, 2, fault) :
        store \in PrefilledStores, user_input \in {"", "a new objective"},
        parsed_yaml \in PlanAnswers, fault \in StoreFaults}

\* The state after Salience(): the state dicts are empty, the frustration
\* is at its minimum and the action selector got its threshold and result
\* count; loop() is about to start.
Init ==
    /\ pc = "display_task_list"
    /\ Tasks \in ConstructorStores
    /\ results_file = <<>>
    /\ frustration = min_frustration
    /\ action_selection = [threshold |-> min_frustration, number_of_results |-> 10]
    /\ data = [current_task |-> Absent, Order |-> Absent]
    /\ task = [execution_results |-> Absent, status_result |-> Absent]
    /\ context = EmptyDict
    /\ feedback = EmptyDict
    /\ reason = EmptyDict
    /\ selected_action = EmptyDict
    /\ last_save_tasks = Absent
    /\ faults = 0
    /\ calls = <<>>
    /\ fresh = FALSE

(* ------------------------------ the loop ------------------------------- *)

\* Whether a collaborator call answers (TRUE) or raises (FALSE): it may
\* raise while the run has faults left.
Answers == IF faults < MaxFaults THEN BOOLEAN ELSE {TRUE}
Raised(ok) == IF ok THEN 0 ELSE 1

\* display_task_list(): show_task_list prints the stored tasks and appends
\* the list to task_results.txt; its errors are logged. It changes nothing
\* the model keeps. A new iteration starts here.
display_task_list ==
    /\ pc = "display_task_list"
    /\ pc' = loop_after("display_task_list")
    /\ UNCHANGED <<Tasks, results_file, frustration, action_selection, data, task,
                   context, feedback, reason, selected_action, last_save_tasks,
                   faults, calls, fresh>>

\* fetch_context(): an empty status result has no 'status' key, and the
\* KeyError ends the loop in its except Exception branch.
fetch_context ==
    /\ pc = "fetch_context"
    /\ IF task.status_result = EmptyDict
       THEN pc' = "loop_error" /\ UNCHANGED context
       ELSE /\ context' = get_feedback_from_status_results(
                              IF task.status_result = Absent THEN None
                              ELSE task.status_result)
            /\ pc' = loop_after("fetch_context")
    /\ UNCHANGED <<Tasks, results_file, frustration, action_selection, data, task,
                   feedback, reason, selected_action, last_save_tasks,
                   faults, calls, fresh>>

\* fetch_feedback(): the blocking prompt.
fetch_feedback ==
    /\ pc = "fetch_feedback"
    /\ \E text \in FeedbackTexts : feedback' = Str(text)
    /\ pc' = loop_after("fetch_feedback")
    /\ UNCHANGED <<Tasks, results_file, frustration, action_selection, data, task,
                   context, reason, selected_action, last_save_tasks,
                   faults, calls, fresh>>

\* run(), first part: log_start and load_data_from_storage. When reading
\* the Results collection raises (results_ok false), the handler of
\* load_data_from_storage logs it and the current task is not determined
\* again; otherwise the current task is read (read_ok: the Tasks
\* collection answered) and determine_current_task either ends the process
\* or lets prepare_ordered_results store its Order.
load_data_from_storage ==
    /\ pc = "load_data_from_storage"
    /\ \E results_ok \in Answers :
           IF ~results_ok
           THEN /\ pc' = "summarize_task"
                /\ faults' = faults + 1
                /\ UNCHANGED data
           ELSE \E read_ok \in Answers :
                   LET current_task == get_current_task(Tasks, read_ok)
                   IN  /\ pc' = determine_current_task(current_task)
                       /\ faults' = faults + Raised(read_ok)
                       /\ data' = IF current_task = None
                                  THEN [data EXCEPT !.current_task = None]
                                  ELSE [data EXCEPT !.current_task = current_task,
                                                    !.Order = current_task.metadata.Order]
    /\ UNCHANGED <<Tasks, results_file, frustration, action_selection, task, context,
                   feedback, reason, selected_action, last_save_tasks, calls, fresh>>

\* summarize_task(): without a current task the subscript raises and run()
\* returns; otherwise the summarization agent answers a text or None (it
\* catches its own errors). The summary is only handed on to the execution
\* agent and is not kept in the model.
summarize_task ==
    /\ pc = "summarize_task"
    /\ IF data.current_task \in {Absent, None}
       THEN pc' = after_run
       ELSE pc' = "select_action"
    /\ UNCHANGED <<Tasks, results_file, frustration, action_selection, data, task,
                   context, feedback, reason, selected_action, last_save_tasks,
                   faults, calls, fresh>>

\* check_for_actions(), first part: select_action. A failed read of the
\* current task or an error of the selector raises out of run(); otherwise
\* the selector answers an action or None and check_for_actions goes on
\* with the paths of its if.
select_action ==
    /\ pc = "select_action"
    /\ \E read_ok \in Answers :
           IF get_current_task(Tasks, read_ok) = None
           THEN /\ selected_action' = None
                /\ pc' = after_run
                /\ faults' = faults + Raised(read_ok)
           ELSE \E selector_ok \in Answers,
                   selected \in {None, [Name |-> "Web Search", Description |-> "searches"]} :
                   /\ faults' = faults + Raised(selector_ok)
                   /\ IF ~selector_ok
                      THEN selected_action' = None /\ pc' = after_run
                      ELSE selected_action' = selected /\ pc' = dispatch_after(selected, 0)
    /\ UNCHANGED <<Tasks, results_file, frustration, action_selection, data, task,
                   context, feedback, reason, last_save_tasks, calls, fresh>>

\* self.task['execution_results'] as execute_action and execute_task build
\* it. Its "context" and "Order" entries only reach the prompt of the status
\* agent and are not kept in the model.
execution_results(task_result) ==
    [task_result |-> task_result,
     current_task |-> data.current_task]

\* The shared body with a first-writer-wins rule: a path that finds
\* execution_results already written by this run() keeps them.
execute_keeping_first(path, collaborator, task_result) ==
    \E read_ok \in Answers :
        IF get_current_task(Tasks, read_ok) = None
        THEN /\ calls' = Append(calls, path)
             /\ faults' = faults + Raised(read_ok)
             /\ UNCHANGED <<task, fresh>>
        ELSE \E run_ok \in Answers :
                /\ calls' = calls \o <<path, collaborator>>
                /\ faults' = faults + Raised(run_ok)
                /\ IF run_ok /\ ~fresh
                   THEN /\ task' = [task EXCEPT
                                       !.execution_results = execution_results(task_result)]
                        /\ fresh' = TRUE
                   ELSE UNCHANGED <<task, fresh>>

\* The body shared by execute_action and execute_task: the current task is
\* read, the collaborator runs and execution_results is written; an error
\* at either call is logged and leaves execution_results as it was.
execute(path, collaborator, task_result) ==
    \E read_ok \in Answers :
        IF get_current_task(Tasks, read_ok) = None
        THEN /\ calls' = Append(calls, path)
             /\ faults' = faults + Raised(read_ok)
             /\ UNCHANGED <<task, fresh>>
        ELSE \E run_ok \in Answers :
                /\ calls' = calls \o <<path, collaborator>>
                /\ faults' = faults + Raised(run_ok)
                /\ IF run_ok
                   THEN /\ task' = [task EXCEPT
                                       !.execution_results = execution_results(task_result)]
                        /\ fresh' = TRUE
                   ELSE UNCHANGED <<task, fresh>>

\* execute_action(): the selected action, its results formatted.
execute_action ==
    /\ pc = "execute_action"
    /\ execute("execute_action", "action_execution.run", "action report")
    /\ pc' = dispatch_after(selected_action, 1)
    /\ UNCHANGED <<Tasks, results_file, frustration, action_selection, data, context,
                   feedback, reason, selected_action, last_save_tasks>>

\* execute_task(): the execution agent.
execute_task ==
    /\ pc = "execute_task"
    /\ execute("execute_task", "exec_agent.run", "direct result")
    /\ pc' = dispatch_after(selected_action, 2)
    /\ UNCHANGED <<Tasks, results_file, frustration, action_selection, data, context,
                   feedback, reason, selected_action, last_save_tasks>>

\* log_results(): with no execution_results the subscript raises; caught
\* or not, run() returns.
log_results ==
    /\ pc = "log_results"
    /\ pc' = after_run
    /\ calls' = <<>>
    /\ UNCHANGED <<Tasks, results_file, frustration, action_selection, data, task,
                   context, feedback, reason, selected_action, last_save_tasks,
                   faults, fresh>>

\* status_agent.run(task=..., **execution_results) on one status report:
\* parse_result with its transcript, save_result, and the result handed
\* back. file_ok: the transcript could be written; write_ok: save_memory
\* answered.
status_agent_run(parsed_yaml, file_ok, write_ok) ==
    LET result == StatusAgent_parse_result(parsed_yaml, task.execution_results)
        transcript == log_task_results(result, task.execution_results)
    IN  /\ Len(results_file) + Len(transcript) <= MaxLog
        /\ results_file' = IF file_ok THEN results_file \o transcript ELSE results_file
        /\ Tasks' = save_status(Tasks, result, write_ok)
        /\ task' = [task EXCEPT !.status_result = result]
        /\ faults' = faults + Raised(file_ok) + Raised(write_ok)

\* determine_status(): the current task is read for the prompt; without
\* execution_results the subscript raises out of the loop; otherwise the
\* status agent runs, and display_status_result raises out of the loop on
\* an empty result.
determine_status ==
    /\ pc = "determine_status"
    /\ IF task.execution_results = Absent
       THEN pc' = "loop_error" /\ UNCHANGED <<Tasks, results_file, task, faults>>
       ELSE \E parsed_yaml \in StatusReports, file_ok \in Answers, write_ok \in Answers :
               /\ Raised(file_ok) + Raised(write_ok) <= MaxFaults - faults
               /\ status_agent_run(parsed_yaml, file_ok, write_ok)
               /\ pc' = IF task'.status_result = EmptyDict
                        THEN "loop_error"
                        ELSE loop_after("determine_status")
    /\ fresh' = FALSE
    /\ UNCHANGED <<frustration, action_selection, data, context, feedback, reason,
                   selected_action, last_save_tasks, calls>>

\* handle_frustration() with its branches swapped.
handle_frustration_swapped(status, f, selection) ==
    IF status = "completed"
    THEN frustrate(f, selection)
    ELSE [frustration |-> min_frustration,
          action_selection |-> [selection EXCEPT !.threshold = min_frustration]]

\* handle_frustration(), lines 304-308, on the status of the last result.
handle_frustration_of(status, f, selection) ==
    IF status # "completed"
    THEN frustrate(f, selection)
    ELSE [frustration |-> min_frustration,
          action_selection |-> [selection EXCEPT !.threshold = min_frustration]]

\* handle_frustration(): a missing or empty status result raises out of
\* the loop after self.reason was set to None.
handle_frustration ==
    /\ pc = "handle_frustration"
    /\ IF task.status_result \in {Absent, EmptyDict}
       THEN /\ reason' = None
            /\ pc' = "loop_error"
            /\ UNCHANGED <<frustration, action_selection>>
       ELSE LET new == handle_frustration_of(task.status_result.status,
                                             frustration, action_selection)
            IN  /\ reason' = Str(task.status_result.reason)
                /\ frustration' = new.frustration
                /\ action_selection' = new.action_selection
                /\ pc' = loop_after("handle_frustration")
    /\ UNCHANGED <<Tasks, results_file, data, task, context, feedback,
                   selected_action, last_save_tasks, faults, calls, fresh>>

\* KeyboardInterrupt as it would go if run() caught BaseException: raised
\* inside run(), it would be logged there and the loop would go on.
keyboard_interrupt_caught_in_run ==
    /\ pc \in LoopSteps
    /\ pc' = IF pc \in {"load_data_from_storage", "summarize_task", "select_action",
                        "execute_action", "execute_task", "log_results"}
             THEN after_run
             ELSE "interrupted"
    /\ UNCHANGED <<Tasks, results_file, frustration, action_selection, data, task,
                   context, feedback, reason, selected_action, last_save_tasks,
                   faults, calls, fresh>>

\* KeyboardInterrupt: no handler below loop() catches it (they catch
\* Exception), so from any step the loop logs it and returns.
keyboard_interrupt ==
    /\ pc \in LoopSteps
    /\ pc' = "interrupted"
    /\ UNCHANGED <<Tasks, results_file, frustration, action_selection, data, task,
                   context, feedback, reason, selected_action, last_save_tasks,
                   faults, calls, fresh>>

Next ==
    \/ display_task_list
    \/ fetch_context
    \/ fetch_feedback
    \/ load_data_from_storage
    \/ summarize_task
    \/ select_action
    \/ execute_action
    \/ execute_task
    \/ log_results
    \/ determine_status
    \/ handle_frustration
    \/ keyboard_interrupt

Spec == Init /\ [][Next]_vars

(* ------------------- the Tasks collection on its own ------------------- *)

\* The two writers of the Tasks collection applied to it in any order, from
\* the store init_storage leaves: the planner (set_objective with a typed
\* objective, of this process or of a later one on the same store) and the
\* status evaluator's save_result.

InitQueue ==
    /\ pc = "set_objective"
    /\ Tasks \in PrefilledStores
    /\ results_file = <<>>
    /\ frustration = min_frustration
    /\ action_selection = [threshold |-> min_frustration, number_of_results |-> 10]
    /\ data = [current_task |-> Absent, Order |-> Absent]
    /\ task = [execution_results |-> Absent, status_result |-> Absent]
    /\ context = EmptyDict
    /\ feedback = EmptyDict
    /\ reason = EmptyDict
    /\ selected_action = EmptyDict
    /\ last_save_tasks = Absent
    /\ faults = 0
    /\ calls = <<>>
    /\ fresh = FALSE

\* task_creation_agent.run() on one planning answer: parse_result, then
\* save_result. The history keeps the last call whose two store calls
\* answered: its list, the collection it left, how many tasks it found,
\* whether one of them had been evaluated, and whether the answered call
\* before it got the same list.
TaskCreationAgent_run ==
    /\ pc = "set_objective"
    /\ \E parsed_yaml \in PlanAnswers, seed \in UuidSeeds, fault \in StoreFaults :
           LET task_list == TaskCreationAgent_parse_result(parsed_yaml)
               after == save_tasks(Tasks, task_list, seed, fault)
           IN  /\ Tasks' = after
               /\ last_save_tasks' =
                      IF fault # "none" THEN last_save_tasks
                      ELSE [task_list |-> task_list,
                            after |-> after,
                            found |-> Len(Tasks),
                            evaluated |-> \E i \in 1..Len(Tasks) :
                                             Tasks[i].metadata.Status # "not completed",
                            repeated |-> /\ last_save_tasks # Absent
                                         /\ last_save_tasks.task_list = task_list]
    /\ UNCHANGED <<pc, results_file, frustration, action_selection, data, task,
                   context, feedback, reason, selected_action, faults, calls, fresh>>

\* StatusAgent.save_result() on the result parsed for one stored task.
StatusAgent_save_result ==
    /\ pc = "set_objective"
    /\ \E i \in 1..Len(Tasks), parsed_yaml \in StatusReports, write_ok \in BOOLEAN :
           Tasks' = save_status(Tasks,
                        StatusAgent_parse_result(parsed_yaml,
                            [current_task |-> Tasks[i], task_result |-> "direct result"]),
                        write_ok)
    /\ UNCHANGED <<pc, results_file, frustration, action_selection, data, task,
                   context, feedback, reason, selected_action, last_save_tasks,
                   faults, calls, fresh>>

NextQueue ==
    \/ TaskCreationAgent_run
    \/ StatusAgent_save_result

SpecQueue == InitQueue /\ [][NextQueue]_vars

(* ------------------ save_tasks, one store call at a time ---------------- *)

\* One save_tasks call followed through its two store calls, on a store
\* an earlier process may have evaluated tasks of: the statement before
\* each call is a state of its own, a process on the same store may read
\* the current task in any of them, and a KeyboardInterrupt between the
\* calls ends the calling process.

\* The params save_tasks hands to save_memory, lines 62-69.
save_tasks_params(task_list, seed) ==
    [i \in 1..Len(task_list) |->
        Doc(str(task_list[i].Order), task_list[i].Description,
            [Status |-> "not completed", Order |-> task_list[i].Order,
             Description |-> task_list[i].Description,
             List_ID |-> uuid4(seed, i)])]

InitReplace == InitQueue

\* save_result calls save_tasks(self.result) on the parsed planning
\* answer; the history keeps the list, the uuids drawn, the collection
\* found and which store call raised.
save_tasks_enter ==
    /\ pc = "set_objective"
    /\ \E parsed_yaml \in PlanAnswers, seed \in UuidSeeds :
           last_save_tasks' = [task_list |-> TaskCreationAgent_parse_result(parsed_yaml),
                               seed |-> seed,
                               before |-> Tasks,
                               raised |-> "none"]
    /\ pc' = "delete_collection"
    /\ UNCHANGED <<Tasks, results_file, frustration, action_selection, data, task,
                   context, feedback, reason, selected_action, faults, calls, fresh>>

\* Line 60: self.storage.delete_collection; an error is logged by the
\* except of save_tasks, which returns.
delete_collection_call ==
    /\ pc = "delete_collection"
    /\ \E ok \in Answers :
           /\ faults' = faults + Raised(ok)
           /\ IF ok
              THEN /\ Tasks' = delete_collection(Tasks)
                   /\ pc' = "save_memory"
                   /\ UNCHANGED last_save_tasks
              ELSE /\ pc' = "done"
                   /\ last_save_tasks' = [last_save_tasks EXCEPT !.raised = "delete"]
                   /\ UNCHANGED Tasks
    /\ UNCHANGED <<results_file, frustration, action_selection, data, task,
                   context, feedback, reason, selected_action, calls, fresh>>

\* Line 70: self.storage.save_memory(params); an error is logged by the
\* except of save_tasks, which returns.
save_memory_call ==
    /\ pc = "save_memory"
    /\ \E ok \in Answers :
           /\ faults' = faults + Raised(ok)
           /\ IF ok
              THEN /\ Tasks' = save_memory(Tasks,
                                   save_tasks_params(last_save_tasks.task_list,
                                                     last_save_tasks.seed))
                   /\ UNCHANGED last_save_tasks
              ELSE /\ last_save_tasks' = [last_save_tasks EXCEPT !.raised = "insert"]
                   /\ UNCHANGED Tasks
    /\ pc' = "done"
    /\ UNCHANGED <<results_file, frustration, action_selection, data, task,
                   context, feedback, reason, selected_action, calls, fresh>>

\* A KeyboardInterrupt while save_tasks is between its statements: its
\* handlers catch Exception only, and the process ends.
save_tasks_interrupted ==
    /\ pc \in {"delete_collection", "save_memory"}
    /\ pc' = "interrupted"
    /\ UNCHANGED <<Tasks, results_file, frustration, action_selection, data, task,
                   context, feedback, reason, selected_action, last_save_tasks,
                   faults, calls, fresh>>

\* A process on the same store reads the current task (the first line of
\* determine_current_task) and keeps what it got.
read_current_task ==
    /\ data' = [data EXCEPT !.current_task = get_current_task(Tasks, TRUE)]
    /\ data' # data
    /\ UNCHANGED <<pc, Tasks, results_file, frustration, action_selection, task,
                   context, feedback, reason, selected_action, last_save_tasks,
                   faults, calls, fresh>>

NextReplace ==
    \/ StatusAgent_save_result
    \/ save_tasks_enter
    \/ delete_collection_call
    \/ save_memory_call
    \/ save_tasks_interrupted
    \/ read_current_task

SpecReplace == InitReplace /\ [][NextReplace]_vars

(* ------------------------------ properties ----------------------------- *)

\* A task as the queue shows it: order, description, status.
QueueView(store) ==
    [i \in 1..Len(store) |->
        [Order |-> store[i].metadata.Order,
         Description |-> store[i].metadata.Description,
         Status |-> store[i].metadata.Status]]

\* C1: whatever the Tasks collection holds, get_current_task returns None
\* exactly when the collection is empty or every task is completed, and
\* otherwise a stored task that is not completed and has the least Order
\* among the not completed ones.
C1_current_task_is_first_not_completed ==
    LET current_task == get_current_task(Tasks, TRUE)
        open == {i \in 1..Len(Tasks) : Tasks[i].metadata.Status = "not completed"}
    IN  /\ (current_task = None) <=>
               (\A i \in 1..Len(Tasks) : Tasks[i].metadata.Status = "completed")
        /\ current_task # None =>
               \E i \in open :
                   /\ current_task = Tasks[i]
                   /\ \A j \in open : Tasks[i].metadata.Order <= Tasks[j].metadata.Order

\* C2: a handle_frustration step on a status other than "completed" never
\* lowers the frustration, never takes it above max_frustration and leaves
\* it at max_frustration once it is there; a step on "completed" sets it to
\* min_frustration; no other step changes it.
C2_frustration_controller ==
    [][/\ frustration' # frustration => handle_frustration
       /\ (handle_frustration /\ pc' # "loop_error") =>
              IF task.status_result.status # "completed"
              THEN /\ FLeq(frustration, frustration')
                   /\ FLeq(frustration', max_frustration)
                   /\ frustration = max_frustration => frustration' = max_frustration
              ELSE frustration' = min_frustration]_vars

\* C2 witness: the controller is about to act on a non-completed outcome
\* with the frustration already raised to max_frustration.
C2_witness_at_max ==
    /\ pc = "handle_frustration"
    /\ frustration = max_frustration
    /\ task.status_result \notin {Absent, EmptyDict}
    /\ task.status_result.status # "completed"

\* C3: after a save_tasks call whose two store calls both answered, the
\* Tasks collection holds exactly the tasks of the list: the i-th has
\* Order i, its description as document and Description and Status "not
\* completed"; nothing else is stored.
C3_replace_queue ==
    last_save_tasks # Absent =>
        LET after == last_save_tasks.after
            task_list == last_save_tasks.task_list
        IN  /\ Len(after) = Len(task_list)
            /\ \A i \in 1..Len(task_list) :
                   /\ task_list[i].Order = i
                   /\ after[i].id = str(i)
                   /\ after[i].document = task_list[i].Description
                   /\ after[i].metadata.Order = i
                   /\ after[i].metadata.Description = task_list[i].Description
                   /\ after[i].metadata.Status = "not completed"

\* C3 witness: a call that answered, on a store that held more tasks than
\* the list names, one of them already evaluated.
C3_witness_shorter_list ==
    /\ last_save_tasks # Absent
    /\ Len(last_save_tasks.task_list) = 1
    /\ last_save_tasks.found = 2
    /\ last_save_tasks.evaluated
    /\ Tasks = last_save_tasks.after

\* C4: when a save_tasks call answers with the list the answered call
\* before it got, the queue it leaves shows the orders, descriptions and
\* statuses the queue after that call showed, all statuses "not
\* completed", whatever save_status wrote in between.
C4_replace_queue_idempotent ==
    [][\A parsed_yaml \in PlanAnswers, seed \in UuidSeeds :
           (/\ pc = "set_objective"
            /\ last_save_tasks # Absent
            /\ TaskCreationAgent_parse_result(parsed_yaml) = last_save_tasks.task_list
            /\ Tasks' = save_tasks(Tasks, last_save_tasks.task_list, seed, "none")
            /\ last_save_tasks' # Absent
            /\ last_save_tasks'.after = Tasks'
            /\ last_save_tasks'.repeated) =>
               /\ QueueView(Tasks') = QueueView(last_save_tasks.after)
               /\ \A i \in 1..Len(Tasks') : Tasks'[i].metadata.Status = "not completed"]_vars

\* C4 witness: the second of two such calls found a task evaluated since
\* the first.
C4_witness_status_changed_between ==
    /\ last_save_tasks # Absent
    /\ last_save_tasks.repeated
    /\ last_save_tasks.evaluated
    /\ last_save_tasks.found = 2
    /\ Len(last_save_tasks.task_list) = 2
    /\ Tasks = last_save_tasks.after

\* C5: a status agent run on a report that has a reason but no status key
\* hands back the empty result and leaves the Tasks collection as it was.
C5_missing_status_key_is_a_failure ==
    [][\A r \in ReasonTexts, file_ok \in BOOLEAN, write_ok \in BOOLEAN :
           (/\ pc = "determine_status"
            /\ task.execution_results # Absent
            /\ status_agent_run([reason |-> r], file_ok, write_ok)) =>
               /\ task'.status_result = EmptyDict
               /\ Tasks' = Tasks]_vars

\* The entries of `calls` that are paths of check_for_actions.
PathsRun == SelectSeq(calls, LAMBDA c : c \in {"execute_action", "execute_task"})

\* The entries of `calls` that are collaborators.
CollaboratorsRun ==
    SelectSeq(calls, LAMBDA c : c \in {"action_execution.run", "exec_agent.run"})

\* C6: when the selector answered no action, check_for_actions has run
\* execute_task once and execute_action not at all by the time it returns.
C6_no_action_runs_direct_execution ==
    (pc = "log_results" /\ selected_action = None) => PathsRun = <<"execute_task">>

\* C7: when the selector answered an action, check_for_actions has run
\* execute_action and then execute_task, once each, by the time it
\* returns; the execution agent is never called before the action, and
\* both are called when no call of the run raised.
C7_action_then_direct_execution ==
    (pc = "log_results" /\ selected_action # None) =>
        /\ PathsRun = <<"execute_action", "execute_task">>
        /\ CollaboratorsRun # <<"exec_agent.run", "action_execution.run">>
        /\ faults = 0 => calls = <<"execute_action", "action_execution.run",
                                   "execute_task", "exec_agent.run">>
        /\ "action_execution.run" \in {calls[i] : i \in 1..Len(calls)} =>
               calls = <<"execute_action", "action_execution.run", "execute_task">>
                           \o SubSeq(calls, 4, Len(calls))

\* C7 witness: both collaborators answered, and the result of the execution
\* agent is the one kept.
C7_witness_both_ran ==
    /\ pc = "log_results"
    /\ selected_action # None
    /\ calls = <<"execute_action", "action_execution.run", "execute_task", "exec_agent.run">>
    /\ fresh
    /\ task.execution_results.task_result = "direct result"

\* C8: the loop only ever stops at quit() or at a KeyboardInterrupt.
C8_loop_stops_only_by_exhaustion_or_interrupt ==
    pc \in Terminal => pc \in {"quit", "interrupted"}

\* C9: a load_data_from_storage step that finds no current task ends the
\* process, and nothing happens after the process ended.
C9_no_current_task_halts ==
    [][/\ (load_data_from_storage /\ data'.current_task = None) => pc' = "quit"
       /\ pc = "quit" => vars' = vars]_vars

\* C9 witness: the process ended in a later iteration, every stored task
\* completed.
C9_witness_quit_after_completion ==
    /\ pc = "quit"
    /\ data.current_task = None
    /\ Tasks # <<>>
    /\ \A i \in 1..Len(Tasks) : Tasks[i].metadata.Status = "completed"
    /\ task.status_result # Absent

\* The stage of the loop a step belongs to (run() and all it calls are
\* RUN_ITERATION).
Stage(step) ==
    CASE step = "display_task_list" -> "DISPLAY"
      [] step = "fetch_context" -> "FETCH_CONTEXT"
      [] step = "fetch_feedback" -> "FETCH_FEEDBACK"
      [] step \in {"load_data_from_storage", "summarize_task", "select_action",
                   "execute_action", "execute_task", "log_results"} -> "RUN_ITERATION"
      [] step = "determine_status" -> "DETERMINE_STATUS"
      [] step = "handle_frustration" -> "ADJUST_FRUSTRATION"
      [] OTHER -> "STOPPED"

StageOrder == <<"DISPLAY", "FETCH_CONTEXT", "FETCH_FEEDBACK", "RUN_ITERATION",
                "DETERMINE_STATUS", "ADJUST_FRUSTRATION">>

\* C10: a step either stays inside RUN_ITERATION, or moves from a stage to
\* the one after it in the fixed order (ADJUST_FRUSTRATION to DISPLAY), or
\* stops the loop; the loop starts at DISPLAY.
C10_stage_order ==
    [][\/ Stage(pc') = "STOPPED"
       \/ Stage(pc') = Stage(pc) /\ Stage(pc) = "RUN_ITERATION"
                                 /\ pc' # "load_data_from_storage"
       \/ \E i \in 1..Len(StageOrder) :
              /\ Stage(pc) = StageOrder[i]
              /\ Stage(pc') = StageOrder[(i % Len(StageOrder)) + 1]]_vars

\* C10 witness: an iteration went through all six stages and the next one
\* is at DISPLAY.
C10_witness_second_iteration ==
    /\ pc = "display_task_list"
    /\ task.status_result \notin {Absent, EmptyDict}
    /\ reason \notin {EmptyDict, None}

\* C11: the frustration is never below min_frustration nor above
\* max_frustration, and it is min_frustration until the controller has
\* acted for the first time.
C11_frustration_in_range ==
    /\ FLeq(min_frustration, frustration)
    /\ FLeq(frustration, max_frustration)
    /\ reason = EmptyDict => frustration = min_frustration

\* C11 witness: the controller raised the frustration to a value strictly
\* between the two ends and the next iteration starts.
C11_witness_between ==
    /\ pc = "display_task_list"
    /\ FLess(min_frustration, frustration)
    /\ FLess(frustration, max_frustration)

\* C12: at select_action, and in every other state, the threshold of the
\* action selector is the frustration and its result count is 10; only
\* handle_frustration steps change the selector, and after each of them,
\* the one at max_frustration included, the threshold is the new
\* frustration.
C12_threshold_follows_frustration ==
    /\ [](/\ action_selection.threshold = frustration
          /\ action_selection.number_of_results = 10)
    /\ [][/\ action_selection' # action_selection => handle_frustration
          /\ (handle_frustration /\ pc' # "loop_error") =>
                 action_selection'.threshold = frustration']_vars

\* C12 witness: a dispatch decision taken with the threshold raised to
\* max_frustration.
C12_witness_select_at_max ==
    /\ pc = "select_action"
    /\ frustration = max_frustration
    /\ action_selection.threshold = max_frustration
    /\ action_selection.number_of_results = 10

\* C13: the Order values of the stored tasks are pairwise distinct; when
\* some stored task is "not completed" exactly one of them has the least
\* Order and get_current_task returns it; when none is, it returns None.
C13_unique_orders_one_current_task ==
    LET not_completed == {i \in 1..Len(Tasks) : Tasks[i].metadata.Status = "not completed"}
        lowest == {i \in not_completed :
                      \A j \in not_completed :
                          Tasks[i].metadata.Order <= Tasks[j].metadata.Order}
    IN  /\ \A i, j \in 1..Len(Tasks) :
               i # j => Tasks[i].metadata.Order # Tasks[j].metadata.Order
        /\ not_completed # {} =>
               /\ Cardinality(lowest) = 1
               /\ \A i \in lowest : get_current_task(Tasks, TRUE) = Tasks[i]
        /\ not_completed = {} => get_current_task(Tasks, TRUE) = None

\* C13 witness: a planned queue of two tasks after a status was written
\* onto its first task: the second is the current one.
C13_witness_second_is_current ==
    /\ Len(Tasks) = 2
    /\ Tasks[1].metadata.Description = "X"
    /\ Tasks[1].metadata.Status = "completed"
    /\ Tasks[2].metadata.Status = "not completed"
    /\ get_current_task(Tasks, TRUE) = Tasks[2]

\* C14: every stored task has Status "not completed" or "completed".
C14_stored_status_is_enumerated ==
    \A i \in 1..Len(Tasks) :
        Tasks[i].metadata.Status \in {"not completed", "completed"}

\* The values the frustration takes when 0.1 is added in decimals: 0.7,
\* 0.8, 0.9, 1.0 as doubles.
DecimalFrustrations == <<min_frustration, Double_0_8, Double_0_9, max_frustration>>

\* C15: a handle_frustration step on a status other than "completed"
\* takes the frustration from 0.7 to 0.8, from 0.8 to 0.9, from 0.9 to
\* 1.0 and from 1.0 to 1.0, and the frustration is never another value.
C15_decimal_frustration_steps ==
    [][(handle_frustration /\ pc' # "loop_error"
            /\ task.status_result.status # "completed") =>
           \E k \in 1..Len(DecimalFrustrations) :
               /\ frustration = DecimalFrustrations[k]
               /\ frustration' = DecimalFrustrations[IF k < Len(DecimalFrustrations)
                                                     THEN k + 1 ELSE k]]_vars

\* C16: a status agent run appends one transcript, the description of the
\* evaluated task with the raw result, when the reported status is
\* "completed" up to case and surrounding blanks and the file could be
\* written; in every other case, and in every other step, the file is left
\* as it was. Entries already written are a prefix of the file ever after.
C16_transcript_iff_completed ==
    [][/\ results_file' # results_file => determine_status
       /\ \A parsed_yaml \in StatusReports, file_ok \in BOOLEAN, write_ok \in BOOLEAN :
              (/\ pc = "determine_status"
               /\ task.execution_results # Absent
               /\ status_agent_run(parsed_yaml, file_ok, write_ok)) =>
                  results_file' =
                      IF /\ parsed_yaml # None
                         /\ "status" \in DOMAIN parsed_yaml
                         /\ parsed_yaml.status \in {"completed", " Completed "}
                         /\ file_ok
                      THEN Append(results_file,
                               [kind |-> "transcript",
                                task |-> task.execution_results.current_task.metadata.Description,
                                text |-> task.execution_results.task_result])
                      ELSE results_file]_vars

\* C16 witness: a second transcript was appended behind the first.
C16_witness_second_transcript ==
    /\ pc = "handle_frustration"
    /\ task.status_result # EmptyDict
    /\ task.status_result.status = "completed"
    /\ Len(results_file) = 2
    /\ results_file[2].task = task.status_result.task.description
    /\ results_file[2].text = task.execution_results.task_result

\* C17: at every step of the loop a KeyboardInterrupt can end it; the step
\* that ends it changes neither the Tasks collection nor the results
\* file, and nothing happens after it.
C17_interrupt_stops_gracefully ==
    /\ [](pc \in LoopSteps => ENABLED (keyboard_interrupt /\ pc' = "interrupted"))
    /\ [][/\ pc' = "interrupted" =>
                 /\ pc \in LoopSteps
                 /\ Tasks' = Tasks
                 /\ results_file' = results_file
                 /\ frustration' = frustration
          /\ pc = "interrupted" => vars' = vars
          /\ (keyboard_interrupt /\ pc \in LoopSteps) => pc' = "interrupted"]_vars

\* C17 witness: the loop was interrupted inside check_for_actions, after a
\* status had been persisted by an earlier iteration.
C17_witness_interrupted_in_run ==
    /\ pc = "interrupted"
    /\ calls # <<>>
    /\ \E i \in 1..Len(Tasks) : Tasks[i].metadata.Status = "completed"

\* C18: only determine_status steps change the Tasks collection, and one
\* that does changes the one record whose id is the evaluated task's: its
\* Status becomes the evaluated status, its id, document, Description and
\* Order stay; the other records and the number of records stay.
C18_persist_changes_one_record ==
    [][/\ Tasks' # Tasks => determine_status
       /\ (determine_status /\ Tasks' # Tasks) =>
              LET result == task'.status_result
              IN  /\ result # EmptyDict
                  /\ Len(Tasks') = Len(Tasks)
                  /\ \A i \in 1..Len(Tasks) :
                         IF Tasks[i].id = result.task.task_id
                         THEN /\ Tasks'[i].id = Tasks[i].id
                              /\ Tasks'[i].document = Tasks[i].document
                              /\ Tasks'[i].metadata.Description = Tasks[i].metadata.Description
                              /\ Tasks'[i].metadata.Order = Tasks[i].metadata.Order
                              /\ Tasks'[i].metadata.Status = result.status
                         ELSE Tasks'[i] = Tasks[i]]_vars

\* C18 witness: the status of the first of two tasks was written; the
\* second still is as prefill_storage stored it.
C18_witness_first_of_two_written ==
    /\ pc = "handle_frustration"
    /\ Len(Tasks) = 2
    /\ task.status_result # EmptyDict
    /\ task.status_result.task.task_id = Tasks[1].id
    /\ Tasks[1].metadata.Status = "completed"
    /\ "List_ID" \notin DOMAIN Tasks[1].metadata
    /\ "List_ID" \in DOMAIN Tasks[2].metadata
    /\ Tasks[2].metadata.Status = "not completed"

\* The failure the caller of get_ordered_task_list would see if it raised.
StoreUnavailable == [py |-> "raise", error |-> "StoreUnavailable"]

\* C19: get_ordered_task_list fails with StoreUnavailable when the store
\* does not answer; when it answers, the list holds every stored task,
\* Orders ascending (the empty list for an empty collection).
C19_load_ordered ==
    LET answered == get_ordered_task_list(Tasks, TRUE)
    IN  /\ get_ordered_task_list(Tasks, FALSE) = StoreUnavailable
        /\ Len(answered.ids) = Len(Tasks)
        /\ {answered.ids[i] : i \in 1..Len(answered.ids)} = Ids(Tasks)
        /\ \A i, j \in 1..Len(answered.metadatas) :
               i < j => answered.metadatas[i].Order <= answered.metadatas[j].Order

\* C20: the execution_results a status evaluation reads was written by
\* the run() of the same iteration, for the task that run() found
\* current.
C20_evaluates_fresh_result ==
    (pc = "determine_status" /\ task.execution_results # Absent) =>
        /\ fresh
        /\ task.execution_results.current_task = data.current_task

\* C21: when no collaborator call has raised and every stored task has had
\* an evaluation that returned completed (its transcript is in the results
\* file), the loop ends only through queue exhaustion (or an interrupt),
\* and when it has ended that way every stored task is marked completed.
C21_halts_with_every_task_completed ==
    (/\ faults = 0
     /\ pc \in Terminal \ {"interrupted"}
     /\ \A i \in 1..Len(Tasks) :
            \E j \in 1..Len(results_file) :
                results_file[j].task = Tasks[i].metadata.Description)
    => /\ pc = "quit"
       /\ \A i \in 1..Len(Tasks) : Tasks[i].metadata.Status = "completed"

\* C22: every stored task whose Order is lower than the current task's
\* Order has the status completed.
C22_tasks_before_current_are_completed ==
    LET current_task == get_current_task(Tasks, TRUE)
    IN  current_task # None =>
            \A i \in 1..Len(Tasks) :
                Tasks[i].metadata.Order < current_task.metadata.Order
                    => Tasks[i].metadata.Status = "completed"

\* C23: no step of the loop changes the stored status of a task that is
\* stored as completed.
C23_completed_stays_completed ==
    [][\A i \in 1..Len(Tasks) :
           Tasks[i].metadata.Status = "completed" =>
               \E j \in 1..Len(Tasks') :
                   /\ Tasks'[j].id = Tasks[i].id
                   /\ Tasks'[j].metadata.Status = "completed"]_vars

\* C24: when the loop has ended through quit(), the Tasks collection holds
\* no task whose status is not completed, whether or not a read of the
\* collection failed on the way.
C24_quit_only_when_nothing_is_left ==
    pc = "quit" =>
        \A i \in 1..Len(Tasks) : Tasks[i].metadata.Status # "not completed"

\* C25: from fetch_context to the status evaluation of an iteration, the
\* context is the reason of the previous iteration's status result when
\* that status was "not completed", and None when there is no previous
\* status result or its status was anything else ("completed" included);
\* no stored task carries a reason: the records keep their fields and
\* none of the stored values is a reason text.
C25_context_is_previous_reason ==
    /\ pc \in {"fetch_feedback", "load_data_from_storage", "summarize_task",
               "select_action", "execute_action", "execute_task", "log_results",
               "determine_status"} =>
           context = IF /\ task.status_result \notin {Absent, EmptyDict}
                        /\ task.status_result.status = "not completed"
                     THEN Str(task.status_result.reason)
                     ELSE None
    /\ \A i \in 1..Len(Tasks) :
           /\ DOMAIN Tasks[i] = {"id", "document", "metadata"}
           /\ DOMAIN Tasks[i].metadata \subseteq {"Status", "Description", "Order", "List_ID"}
           /\ Tasks[i].document \notin ReasonTexts
           /\ Tasks[i].metadata.Status \notin ReasonTexts
           /\ Tasks[i].metadata.Description \notin ReasonTexts

\* C25 witness: the second iteration runs with the reason of the first
\* evaluation, which said not completed, as its context, and the evaluated
\* status has been stored.
C25_witness_reason_is_context ==
    /\ pc = "select_action"
    /\ task.status_result \notin {Absent, EmptyDict}
    /\ task.status_result.status = "not completed"
    /\ context = Str("too vague")
    /\ \E i \in 1..Len(Tasks) : "List_ID" \notin DOMAIN Tasks[i].metadata

\* C26: a run of the task creation agent on a planning answer that has no
\* structured content or no `tasks` key leaves the Tasks collection as it
\* was before the run, whatever the store does.
C26_unparseable_plan_keeps_queue ==
    [][\A parsed_yaml \in {None, [objective |-> "x"]}, seed \in UuidSeeds,
          fault \in StoreFaults :
           (/\ TaskCreationAgent_run
            /\ Tasks' = save_tasks(Tasks, TaskCreationAgent_parse_result(parsed_yaml),
                                   seed, fault))
           => Tasks' = Tasks]_vars

\* C27: when execute_task returns without any call of it having raised,
\* execution_results is the one it wrote (the direct result, for the task
\* run() found current); when it returns and the execution_results of
\* this run() holds the action report, a call of execute_task raised after
\* execute_action had written it; log_results hands what it finds on to
\* the status evaluation unchanged.
C27_last_writer_is_evaluated ==
    [][/\ (pc = "execute_task" /\ pc' = "log_results") =>
              /\ faults' = faults =>
                     /\ fresh'
                     /\ task'.execution_results.task_result = "direct result"
                     /\ task'.execution_results.current_task = data.current_task
              /\ (fresh' /\ task'.execution_results.task_result = "action report") =>
                     /\ faults' = faults + 1
                     /\ fresh
                     /\ task' = task
       /\ (pc = "log_results" /\ pc' = "determine_status") =>
              /\ task' = task
              /\ fresh' = fresh]_vars

\* C27 witness: the status evaluation is about to read the direct result
\* of an iteration in which an action was selected and no call raised.
C27_witness_direct_result_evaluated ==
    /\ pc = "determine_status"
    /\ selected_action # None
    /\ faults = 0
    /\ fresh
    /\ task.execution_results.task_result = "direct result"
    /\ task.status_result # Absent

\* C28: save_tasks changes the Tasks collection in two steps. Between the
\* two store calls the collection is empty, and a process reading the
\* current task there gets None; an insert that raises after the delete
\* answered leaves it empty; at every point of the call the collection is
\* the one found, empty, or the new list alone, never tasks of both; and
\* when the call has returned the collection is what save_tasks as one
\* step gives.
C28_delete_then_insert ==
    /\ [](last_save_tasks # Absent =>
            LET call == last_save_tasks
                new == save_memory(<<>>, save_tasks_params(call.task_list, call.seed))
            IN  /\ pc = "save_memory" => Tasks = <<>>
                /\ (pc = "done" /\ call.raised = "insert") => Tasks = <<>>
                /\ Tasks = call.before \/ Tasks = <<>> \/ Tasks = new
                /\ pc = "done" =>
                       Tasks = save_tasks(call.before, call.task_list, call.seed, call.raised))
    /\ [][(read_current_task /\ pc = "save_memory") => data'.current_task = None]_vars

\* C28 witness: the process was interrupted between the two store calls
\* of a call that found two tasks and was to store one, and a reader then
\* found no current task.
C28_witness_read_between_calls ==
    /\ pc = "interrupted"
    /\ last_save_tasks # Absent
    /\ Len(last_save_tasks.before) = 2
    /\ Len(last_save_tasks.task_list) = 1
    /\ Tasks = <<>>
    /\ data.current_task = None

====
